---- MODULE Spec2Model ----
(***************************************************************************)
(* Georeferenced raster compositor of coverage_utils: the three scripts    *)
(* composite.py (BestSignal), composite_best_server.py                     *)
(* (AttributedBestServer) and composite_redundancy.py (OverlapConsensus).  *)
(* One run of create_composite_map is a state machine: load the colour     *)
(* table, parse the discovered descriptors one by one, build the canvas    *)
(* from the first loaded layer, merge the layers one by one, paint/filter  *)
(* and write the outputs.                                                  *)
(*                                                                         *)
(* Numbers.  Path-loss values are integers counting units of 2^-17 dB;     *)
(* every such value below 2^14 dB is exact in binary64, so float(parts[0]) *)
(* is exact on them, and the store into a float32 buffer is the rounding   *)
(* F32 to 24 significant bits.  Geographic arithmetic is binary floating   *)
(* point with round-to-nearest-even after every operation, as Python's     *)
(* float; the significand is scaled down from 53 bits to Precision bits so *)
(* that the rounding of a subtraction, a division and a product happens on *)
(* coordinates given in tenths of a degree.                                *)
(***************************************************************************)
EXTENDS Integers, Sequences, FiniteSets, TLC

\* ------------------------------------------------------------------ bounds
Precision == 10
MaxLayers == 2
MaxLines == 3
ManyLayers == 257

\* --------------------------------------------------------------- utilities
RECURSIVE Pow2(_)
Pow2(k) == IF k <= 0 THEN 1 ELSE 2 * Pow2(k - 1)

Min(a, b) == IF a <= b THEN a ELSE b

\* ------------------------------------------------- float32 path-loss values
DbUnit == Pow2(17)
Float32Mantissa == 24

RECURSIVE Quantum(_, _)
\* the spacing of float32 numbers around n (n >= 0, in units of 2^-17 dB)
Quantum(n, q) == IF n \div q < Pow2(Float32Mantissa) THEN q ELSE Quantum(n, 2 * q)

\* np.float32(db): round to nearest, ties to even
F32(n) ==
  LET a == IF n < 0 THEN 0 - n ELSE n
      q == Quantum(a, 1)
      lo == (a \div q) * q
      r == a - lo
      up == (2 * r > q) \/ (2 * r = q /\ (a \div q) % 2 = 1)
      v == IF up THEN lo + q ELSE lo
  IN IF n < 0 THEN 0 - v ELSE v

UNDEFINED_PATH_LOSS == 9999 * DbUnit
VALID_THRESHOLD_DB == 150 * DbUnit
MIN_OVERLAP_COUNT == 2

SERVER_PALETTE ==
  << <<255, 0, 0>>, <<0, 0, 255>>, <<0, 128, 0>>, <<255, 165, 0>>, <<128, 0, 128>>,
     <<0, 255, 255>>, <<255, 20, 147>>, <<255, 255, 0>>, <<139, 69, 19>>, <<0, 0, 0>> >>

\* np.uint8 cell: values wrap modulo 2^8
Uint8(x) == x % 256

\* ------------------------------------------------ Python float (geography)
\* a float is m * 2^e with 2^(Precision-1) <= m < 2^Precision, or zero
TwoP == Pow2(Precision)
HalfP == Pow2(Precision - 1)
FlZero == [m |-> 0, e |-> 0]

RECURSIVE FlRound(_, _, _)
\* the float nearest to (n / d) * 2^e, ties to even (n >= 0, d > 0)
FlRound(n, d, e) ==
  IF n = 0 THEN FlZero
  ELSE IF n >= d * TwoP THEN FlRound(n, 2 * d, e + 1)
  ELSE IF n < d * HalfP THEN FlRound(2 * n, d, e - 1)
  ELSE LET q == n \div d
           r == n % d
           up == (2 * r > d) \/ (2 * r = d /\ q % 2 = 1)
           m == IF up THEN q + 1 ELSE q
       IN IF m = TwoP THEN [m |-> HalfP, e |-> e + 1] ELSE [m |-> m, e |-> e]

\* float("d.d"): a decimal given in tenths of a degree
FlParse(t) == FlRound(t, 10, 0)
\* int -> float (image sizes)
FlFromInt(k) == FlRound(k, 1, 0)

FlLess(x, y) ==
  IF y.m = 0 THEN FALSE
  ELSE IF x.m = 0 THEN TRUE
  ELSE x.e < y.e \/ (x.e = y.e /\ x.m < y.m)

FlMax(x, y) == IF FlLess(x, y) THEN y ELSE x
FlMin(x, y) == IF FlLess(y, x) THEN y ELSE x

\* x - y for x >= y
FlSub(x, y) ==
  IF y.m = 0 THEN x
  ELSE LET em == Min(x.e, y.e)
       IN FlRound(x.m * Pow2(x.e - em) - y.m * Pow2(y.e - em), 1, em)

FlMul(x, y) == FlRound(x.m * y.m, 1, x.e + y.e)
FlDiv(x, y) == FlRound(x.m, y.m, x.e - y.e)

\* int(x): truncation
FlTrunc(x) ==
  IF x.e >= 0 THEN x.m * Pow2(x.e)
  ELSE IF 0 - x.e >= Precision THEN 0
  ELSE x.m \div Pow2(0 - x.e)

\* --------------------------------------------------------- ColorScale
\* A line of the .lcf file after strip() and re.split: kind is "blank",
\* "comment" or "data"; parts are the fields, each [t, v] with t = "int"
\* (an integer literal), "dec" (a decimal literal, accepted by float()
\* only) or "junk".  The v of the first field counts units of 2^-17 dB.
EmptyScale == [color_map |-> <<>>, entries |-> <<>>]

FloatOk(tok) == tok.t \in {"int", "dec"}
IntOk(tok) == tok.t = "int"

\* self.color_map[(r, g, b)] = db
MapSet(cm, c, db) == [x \in (DOMAIN cm) \cup {c} |-> IF x = c THEN db ELSE cm[x]]

\* one iteration of the for-loop of load_lcf
LoadLine(cs, line, keepEntries) ==
  IF line.kind # "data" THEN cs
  ELSE IF Len(line.parts) < 4 THEN cs
  ELSE IF ~(FloatOk(line.parts[1]) /\ IntOk(line.parts[2])
            /\ IntOk(line.parts[3]) /\ IntOk(line.parts[4])) THEN cs
  ELSE LET db == line.parts[1].v
           c == <<line.parts[2].v, line.parts[3].v, line.parts[4].v>>
       IN [color_map |-> MapSet(cs.color_map, c, db),
           entries |-> IF keepEntries THEN Append(cs.entries, <<db, c[1], c[2], c[3]>>)
                       ELSE cs.entries]

RECURSIVE LoadLines(_, _, _)
LoadLines(cs, lines, keepEntries) ==
  IF lines = <<>> THEN cs
  ELSE LoadLines(LoadLine(cs, Head(lines), keepEntries), Tail(lines), keepEntries)

\* an unstable sort: x goes before the entries of equal key
InsertEntry_before(sorted, x) ==
  LET n == Cardinality({i \in 1..Len(sorted) : sorted[i][1] < x[1]})
  IN SubSeq(sorted, 1, n) \o <<x>> \o SubSeq(sorted, n + 1, Len(sorted))

\* list.sort(key=lambda x: x[0]): insert x after the last entry whose key is <= x[0]
InsertEntry(sorted, x) ==
  LET n == Cardinality({i \in 1..Len(sorted) : sorted[i][1] <= x[1]})
  IN SubSeq(sorted, 1, n) \o <<x>> \o SubSeq(sorted, n + 1, Len(sorted))

RECURSIVE SortEntries(_, _)
SortEntries(acc, rest) ==
  IF rest = <<>> THEN acc ELSE SortEntries(InsertEntry(acc, Head(rest)), Tail(rest))

\* ColorScale.load_lcf after the existence test; composite_best_server.py keeps no entries
load_lcf(lines, keepEntries) ==
  LET cs == LoadLines(EmptyScale, lines, keepEntries)
  IN [color_map |-> cs.color_map, entries |-> SortEntries(<<>>, cs.entries)]

\* temp_loss started from zeros instead of the sentinel
Decode_zeros(cm, c) == IF c \in DOMAIN cm THEN F32(cm[c]) ELSE 0

\* temp_loss at one pixel: the float32 value of the colour, UNDEFINED if no key matches
Decode(cm, c) == IF c \in DOMAIN cm THEN F32(cm[c]) ELSE UNDEFINED_PATH_LOSS

\* ------------------------------------------------------------- MapLayer
\* A discovered descriptor (.kml): output says whether its name contains the
\* script's output marker; raster is the file found next to it ("png",
\* "ppm" or "none"); readable says whether Image.open succeeds on it; box is
\* "ok", "absent" (no <LatLonBox>, or unparsable XML) or "nonnum"; the
\* bounds are decimals in tenths of a degree; h, w, pat describe the raster.
PixelColors == << <<255, 0, 0>>, <<0, 255, 0>>, <<0, 0, 255>>, <<255, 255, 255>> >>

\* src_arr[i-1, j-1] after img.convert('RGB')
RasterPixel(layer, i, j) ==
  PixelColors[((layer.pat.b + layer.pat.s * ((i - 1) + 2 * (j - 1))) % Len(PixelColors)) + 1]

\* MapLayer.__init__ and parse_kml succeed
Loadable(d) == d.raster # "none" /\ d.box = "ok"

\* the MapLayer object; index and display_color exist in composite_best_server.py only
MapLayer(d, index, color) ==
  [png_path |-> d.raster, readable |-> d.readable,
   north |-> FlParse(d.north), south |-> FlParse(d.south),
   east |-> FlParse(d.east), west |-> FlParse(d.west),
   h |-> d.h, w |-> d.w, pat |-> d.pat,
   index |-> index, display_color |-> color]

\* SERVER_PALETTE[idx_counter % len(SERVER_PALETTE)]
PaletteColor(idx) == SERVER_PALETTE[(idx % Len(SERVER_PALETTE)) + 1]

\* the counter advanced before MapLayer(...) is attempted
ParseOne_countsFailures(pol, ls, d) ==
  IF d.output THEN ls
  ELSE IF ~Loadable(d) THEN [layers |-> ls.layers, idx_counter |-> ls.idx_counter + 1]
  ELSE IF pol = "AttributedBestServer"
       THEN [layers |-> Append(ls.layers, MapLayer(d, ls.idx_counter + 1, PaletteColor(ls.idx_counter))),
             idx_counter |-> ls.idx_counter + 1]
       ELSE [layers |-> Append(ls.layers, MapLayer(d, 0, <<0, 0, 0>>)),
             idx_counter |-> ls.idx_counter]

\* one iteration of the parsing loop: the state (layers, idx_counter) after descriptor d
ParseOne(pol, ls, d) ==
  IF d.output THEN ls
  ELSE IF ~Loadable(d) THEN ls
  ELSE IF pol = "AttributedBestServer"
       THEN [layers |-> Append(ls.layers, MapLayer(d, ls.idx_counter + 1, PaletteColor(ls.idx_counter))),
             idx_counter |-> ls.idx_counter + 1]
       ELSE [layers |-> Append(ls.layers, MapLayer(d, 0, <<0, 0, 0>>)),
             idx_counter |-> ls.idx_counter]

RECURSIVE ParseAll(_, _, _)
ParseAll(pol, ls, ds) ==
  IF ds = <<>> THEN ls ELSE ParseAll(pol, ParseOne(pol, ls, Head(ds)), Tail(ds))

\* ------------------------------------------------- CoordinateTransform
\* max(...) and min(...) over the layers
MaxOf(xs) == xs[CHOOSE i \in DOMAIN xs : \A j \in DOMAIN xs : ~FlLess(xs[i], xs[j])]
MinOf(xs) == xs[CHOOSE i \in DOMAIN xs : \A j \in DOMAIN xs : ~FlLess(xs[j], xs[i])]

\* global_north, global_south, global_east, global_west
GlobalBox(ls) ==
  [north |-> MaxOf([i \in 1..Len(ls) |-> ls[i].north]),
   south |-> MinOf([i \in 1..Len(ls) |-> ls[i].south]),
   east |-> MaxOf([i \in 1..Len(ls) |-> ls[i].east]),
   west |-> MinOf([i \in 1..Len(ls) |-> ls[i].west])]

\* ppd_lat, ppd_lon from the reference layer and master_h, master_w
PpdLat(ref) == FlDiv(FlFromInt(ref.h), FlSub(ref.north, ref.south))
PpdLon(ref) == FlDiv(FlFromInt(ref.w), FlSub(ref.east, ref.west))
MasterH(g, plat) == FlTrunc(FlMul(FlSub(g.north, g.south), plat))
MasterW(g, plon) == FlTrunc(FlMul(FlSub(g.east, g.west), plon))

\* the geometry computed from the loaded layers
Geometry(ls) ==
  LET g == GlobalBox(ls)
      plat == PpdLat(ls[1])
      plon == PpdLon(ls[1])
  IN [box |-> g, ppd_lat |-> plat, ppd_lon |-> plon,
      master_h |-> MasterH(g, plat), master_w |-> MasterW(g, plon)]

\* the row offset measured from the layer's south edge instead of its north edge
Place_fromSouth(layer, geo) ==
  LET ys == FlTrunc(FlMul(FlSub(geo.box.north, layer.south), geo.ppd_lat))
      xs == FlTrunc(FlMul(FlSub(layer.west, geo.box.west), geo.ppd_lon))
  IN [y_start |-> ys, x_start |-> xs,
      y_end |-> Min(ys + layer.h, geo.master_h),
      x_end |-> Min(xs + layer.w, geo.master_w)]

\* y_start, x_start, y_end, x_end of one layer
Place(layer, geo) ==
  LET ys == FlTrunc(FlMul(FlSub(geo.box.north, layer.north), geo.ppd_lat))
      xs == FlTrunc(FlMul(FlSub(layer.west, geo.box.west), geo.ppd_lon))
  IN [y_start |-> ys, x_start |-> xs,
      y_end |-> Min(ys + layer.h, geo.master_h),
      x_end |-> Min(xs + layer.w, geo.master_w)]

\* curr_h <= 0 or curr_w <= 0
Degenerate(pl) == pl.y_end - pl.y_start <= 0 \/ pl.x_end - pl.x_start <= 0

\* canvas cell (y, x), counted from 1, lies in [y_start:y_end, x_start:x_end]
InRegion(pl, y, x) ==
  pl.y_start < y /\ y <= pl.y_end /\ pl.x_start < x /\ x <= pl.x_end

\* ------------------------------------------------------------ MergePolicy
\* the canvas buffers: rows 1..master_h of cells 1..master_w; a script that
\* has no such buffer keeps <<>>
Grid(hh, ww, v) == [y \in 1..hh |-> [x \in 1..ww |-> v]]
Transparent == <<0, 0, 0, 0>>
\* src_chunk_rgba: the layer's colour with alpha 255
Opaque(c) == <<c[1], c[2], c[3], 255>>

NewCanvas(pol, geo) ==
  [master_loss |-> Grid(geo.master_h, geo.master_w, UNDEFINED_PATH_LOSS),
   master_rgba |-> IF pol = "AttributedBestServer" THEN <<>>
            ELSE Grid(geo.master_h, geo.master_w, Transparent),
   master_owner_id |-> IF pol = "AttributedBestServer" THEN Grid(geo.master_h, geo.master_w, 0) ELSE <<>>,
   coverage_count |-> IF pol = "OverlapConsensus" THEN Grid(geo.master_h, geo.master_w, 0) ELSE <<>>]

\* temp_loss at canvas cell (y, x) of the layer placed at pl
TempLoss(cm, layer, pl, y, x) ==
  Decode(cm, RasterPixel(layer, y - pl.y_start, x - pl.x_start))

\* composite.py: update_mask
UpdateMask(temp, cur) == temp < cur /\ temp # UNDEFINED_PATH_LOSS
\* the cutoff written as a strict comparison
BetterMask_strict(temp, cur) == temp < cur /\ temp < VALID_THRESHOLD_DB

\* composite_best_server.py: better_mask
BetterMask(temp, cur) == temp < cur /\ temp <= VALID_THRESHOLD_DB
\* composite_redundancy.py: valid_signal_mask, better_signal_mask
ValidSignalMask(temp) == temp <= VALID_THRESHOLD_DB
BetterSignalMask(temp, cur) == temp < cur /\ ValidSignalMask(temp)

Winner(pol, temp, cur) ==
  CASE pol = "BestSignal" -> UpdateMask(temp, cur)
    [] pol = "AttributedBestServer" -> BetterMask(temp, cur)
    [] pol = "OverlapConsensus" -> BetterSignalMask(temp, cur)

\* the visual pasted over the whole region instead of where the mask is set
MergeRegion_pasteAll(pol, cm, cv, layer, pl, geo, wraps) ==
  LET T(y, x) == TempLoss(cm, layer, pl, y, x)
      Win(y, x) == InRegion(pl, y, x) /\ Winner(pol, T(y, x), cv.master_loss[y][x])
  IN [master_loss |-> [y \in 1..geo.master_h |-> [x \in 1..geo.master_w |->
                  IF Win(y, x) THEN T(y, x) ELSE cv.master_loss[y][x]]],
      master_rgba |-> IF pol = "AttributedBestServer" THEN cv.master_rgba
               ELSE [y \in 1..geo.master_h |-> [x \in 1..geo.master_w |->
                  IF InRegion(pl, y, x)
                  THEN Opaque(RasterPixel(layer, y - pl.y_start, x - pl.x_start))
                  ELSE cv.master_rgba[y][x]]],
      master_owner_id |-> IF pol # "AttributedBestServer" THEN cv.master_owner_id
                ELSE [y \in 1..geo.master_h |-> [x \in 1..geo.master_w |->
                  IF Win(y, x) THEN Uint8(layer.index) ELSE cv.master_owner_id[y][x]]],
      coverage_count |-> IF pol # "OverlapConsensus" THEN cv.coverage_count
                ELSE [y \in 1..geo.master_h |-> [x \in 1..geo.master_w |->
                  IF InRegion(pl, y, x) /\ ValidSignalMask(T(y, x))
                  THEN Uint8(cv.coverage_count[y][x] + 1) ELSE cv.coverage_count[y][x]]]]

\* the body of the try block for a layer with a non-degenerate region.
\* wraps: storing layer.index > 255 into the uint8 owner grid wraps (older
\* NumPy); otherwise np.where raises OverflowError after master_loss has
\* been written and the owner grid stays as it was.
MergeRegion(pol, cm, cv, layer, pl, geo, wraps) ==
  LET T(y, x) == TempLoss(cm, layer, pl, y, x)
      Win(y, x) == InRegion(pl, y, x) /\ Winner(pol, T(y, x), cv.master_loss[y][x])
      storeOwner == layer.index <= 255 \/ wraps
  IN [master_loss |-> [y \in 1..geo.master_h |-> [x \in 1..geo.master_w |->
                  IF Win(y, x) THEN T(y, x) ELSE cv.master_loss[y][x]]],
      master_rgba |-> IF pol = "AttributedBestServer" THEN cv.master_rgba
               ELSE [y \in 1..geo.master_h |-> [x \in 1..geo.master_w |->
                  IF Win(y, x) THEN Opaque(RasterPixel(layer, y - pl.y_start, x - pl.x_start))
                  ELSE cv.master_rgba[y][x]]],
      master_owner_id |-> IF pol # "AttributedBestServer" \/ ~storeOwner THEN cv.master_owner_id
                ELSE [y \in 1..geo.master_h |-> [x \in 1..geo.master_w |->
                  IF Win(y, x) THEN Uint8(layer.index) ELSE cv.master_owner_id[y][x]]],
      coverage_count |-> IF pol # "OverlapConsensus" THEN cv.coverage_count
                ELSE [y \in 1..geo.master_h |-> [x \in 1..geo.master_w |->
                  IF InRegion(pl, y, x) /\ ValidSignalMask(T(y, x))
                  THEN Uint8(cv.coverage_count[y][x] + 1) ELSE cv.coverage_count[y][x]]]]

\* one iteration of the merge loop
MergeOne(pol, cm, cv, layer, geo, wraps) ==
  IF ~layer.readable THEN cv
  ELSE IF Degenerate(Place(layer, geo)) THEN cv
  ELSE MergeRegion(pol, cm, cv, layer, Place(layer, geo), geo, wraps)

RECURSIVE MergeAll(_, _, _, _, _, _)
MergeAll(pol, cm, cv, ls, geo, wraps) ==
  IF ls = <<>> THEN cv
  ELSE MergeAll(pol, cm, MergeOne(pol, cm, cv, Head(ls), geo, wraps), Tail(ls), geo, wraps)

\* composite_best_server.py: the painting loop over the layers; a cell keeps
\* the colour of the last layer of the list whose index equals its owner id
PaintOwners(img, owner, ls) ==
  [y \in DOMAIN img |-> [x \in DOMAIN img[y] |->
     LET hits == {i \in 1..Len(ls) : ls[i].index = owner[y][x]}
     IN IF hits = {} THEN img[y][x]
        ELSE Opaque(ls[CHOOSE i \in hits : \A j \in hits : j <= i].display_color)]]

\* composite_redundancy.py: master_rgba[coverage_count < MIN_OVERLAP_COUNT] = (0,0,0,0)
OverlapFilter(rgba, count) ==
  [y \in DOMAIN rgba |-> [x \in DOMAIN rgba[y] |->
     IF count[y][x] < MIN_OVERLAP_COUNT THEN Transparent ELSE rgba[y][x]]]

\* the array handed to Image.fromarray(...).save
FinalImage(pol, cv, ls, geo) ==
  CASE pol = "BestSignal" -> cv.master_rgba
    [] pol = "AttributedBestServer" ->
         PaintOwners(Grid(geo.master_h, geo.master_w, Transparent), cv.master_owner_id, ls)
    [] pol = "OverlapConsensus" -> OverlapFilter(cv.master_rgba, cv.coverage_count)

\* ------------------------------------------------------------------ inputs
Policies == {"BestSignal", "AttributedBestServer", "OverlapConsensus"}

Red == PixelColors[1]
Green == PixelColors[2]
Blue == PixelColors[3]
White == PixelColors[4]

Tok(t, v) == [t |-> t, v |-> v]
\* the line "db; r; g; b"
DataLine(db, c) ==
  [kind |-> "data", parts |-> <<Tok("dec", db), Tok("int", c[1]), Tok("int", c[2]), Tok("int", c[3])>>]
BlankLine == [kind |-> "blank", parts |-> <<>>]
CommentLine == [kind |-> "comment", parts |-> <<>>]
\* three fields only
ShortLine == [kind |-> "data", parts |-> <<Tok("dec", 80 * DbUnit), Tok("int", 255), Tok("int", 0)>>]
\* a first field that float() rejects, a colour field that int() rejects
JunkDbLine ==
  [kind |-> "data", parts |-> <<Tok("junk", 0), Tok("int", 0), Tok("int", 0), Tok("int", 255)>>]
DecColorLine ==
  [kind |-> "data", parts |-> <<Tok("dec", 100 * DbUnit), Tok("dec", 0), Tok("int", 0), Tok("int", 255)>>]

\* the colour tables of the layer runs: ScaleA has a tie (Red, Green) and a
\* colour at the threshold, and leaves White out; ScaleB has a colour above
\* the threshold, one a float32 step above it, and one at the sentinel
ScaleA == <<DataLine(80 * DbUnit, Red), BlankLine, DataLine(80 * DbUnit, Green),
            DataLine(150 * DbUnit, Blue)>>
ScaleB == <<DataLine(120 * DbUnit, Red), DataLine(95 * DbUnit, Red), DataLine(160 * DbUnit, Green),
            DataLine(150 * DbUnit + 1, Blue), DataLine(9999 * DbUnit, White)>>
FileOf(lines) == [exists |-> TRUE, lines |-> lines]
NoFile == [exists |-> FALSE, lines |-> <<>>]

LineMenu ==
  {CommentLine, ShortLine, JunkDbLine, DecColorLine,
   DataLine(120 * DbUnit, Red), DataLine(80 * DbUnit, Red), DataLine(80 * DbUnit, Green),
   DataLine(100 * DbUnit, Blue)}

RECURSIVE SeqsUpTo(_, _)
SeqsUpTo(S, n) ==
  IF n = 0 THEN {<<>>}
  ELSE LET shorter == SeqsUpTo(S, n - 1)
       IN shorter \cup {Append(q, x) : q \in {r \in shorter : Len(r) = n - 1}, x \in S}

\* rasters: Varied changes colour along both axes, Uniform is Green everywhere
Varied == [b |-> 0, s |-> 1]
Uniform == [b |-> 1, s |-> 0]

\* a descriptor with a readable .png; lat = <<south, north, h>>, lon = <<west, east, w>>
Desc(lat, lon, pat) ==
  [output |-> FALSE, raster |-> "png", readable |-> TRUE, box |-> "ok",
   south |-> lat[1], north |-> lat[2], h |-> lat[3],
   west |-> lon[1], east |-> lon[2], w |-> lon[3], pat |-> pat]

\* 10 pixels per degree on paper: 1.0..1.2, 1.1..1.3, 1.0..1.4 degrees
LatA == <<10, 12, 2>>
LatB == <<11, 13, 2>>
LatC == <<10, 14, 4>>
\* 2 pixels per degree, exactly representable bounds
LatE == <<10, 20, 2>>
LonA == <<10, 12, 2>>
LonB == <<11, 13, 2>>

GoodDescriptors ==
  {Desc(LatA, LonA, Varied), Desc(LatA, LonA, Uniform),
   Desc(LatB, LonA, Varied), Desc(LatB, LonA, Uniform),
   Desc(LatB, LonB, Varied), Desc(LatC, LonA, Varied), Desc(LatE, LonA, Uniform)}

Base == Desc(LatA, LonA, Varied)
\* the script's own output descriptor, found by the glob
OutputNamed == [Base EXCEPT !.output = TRUE]
\* neither .png nor .ppm next to the descriptor
NoRaster == [Base EXCEPT !.raster = "none"]
\* no <LatLonBox>; a bound that float() rejects
NoBox == [Base EXCEPT !.box = "absent"]
BadBound == [Base EXCEPT !.box = "nonnum"]
\* a .ppm that exists but cannot be opened
Corrupt == [Base EXCEPT !.raster = "ppm", !.readable = FALSE]

BadDescriptors == {OutputNamed, NoRaster, NoBox, Corrupt}
Descriptors == GoodDescriptors \cup BadDescriptors

\* one pixel over 1.0..1.5 x 1.0..1.5 degrees, of one colour
Unit(b) == Desc(<<10, 15, 1>>, <<10, 15, 1>>, [b |-> b, s |-> 0])
\* n copies of a descriptor
Copies(n, d) == [i \in 1..n |-> d]

\* a directory that exercises every branch of the run
Mixed == <<OutputNamed, BadBound, Desc(<<10, 30, 2>>, LonA, Varied), Corrupt,
           Desc(LatB, LonA, Uniform), Desc(<<5, 10, 1>>, LonA, Uniform)>>

\* ------------------------------------------------------------------- state
VARIABLES policy, wraps, lcf, kml_files,
          pc, color_map, entries, k, idx_counter, layers,
          geo, cv, li, final_rgba, written

vars == <<policy, wraps, lcf, kml_files, pc, color_map, entries, k, idx_counter, layers,
          geo, cv, li, final_rgba, written>>

inputs == <<policy, wraps, lcf, kml_files>>

NoGeo == [box |-> [north |-> FlZero, south |-> FlZero, east |-> FlZero, west |-> FlZero],
          ppd_lat |-> FlZero, ppd_lon |-> FlZero, master_h |-> 0, master_w |-> 0]
NoCanvas == [master_loss |-> <<>>, master_rgba |-> <<>>, master_owner_id |-> <<>>,
             coverage_count |-> <<>>]

Start ==
  /\ pc = "load"
  /\ color_map = <<>> /\ entries = <<>>
  /\ k = 1 /\ idx_counter = 0 /\ layers = <<>>
  /\ geo = NoGeo /\ cv = NoCanvas /\ li = 1
  /\ final_rgba = <<>> /\ written = {}

Builds(pol) == IF pol = "AttributedBestServer" THEN BOOLEAN ELSE {TRUE}

\* runs over up to MaxLayers descriptors
Init ==
  /\ policy \in Policies
  /\ wraps \in Builds(policy)
  /\ \/ lcf \in {FileOf(ScaleA), FileOf(ScaleB)} /\ kml_files \in SeqsUpTo(Descriptors, MaxLayers)
     \/ lcf = NoFile /\ kml_files = <<Base>>
     \/ lcf = FileOf(ScaleA) /\ kml_files = Mixed
  /\ Start

\* runs over every colour table of up to MaxLines lines
InitTable ==
  /\ policy \in Policies
  /\ wraps \in Builds(policy)
  /\ \/ lcf \in {FileOf(ls) : ls \in SeqsUpTo(LineMenu, MaxLines)} /\ kml_files = <<Base>>
     \/ lcf = NoFile /\ kml_files = <<Base>>
     \/ lcf = FileOf(ScaleA) /\ kml_files \in {<<>>, <<Corrupt>>, Mixed}
  /\ Start

\* runs over more layers than a uint8 cell can count
InitMany ==
  /\ policy \in Policies
  /\ wraps \in Builds(policy)
  /\ \/ lcf = FileOf(ScaleB)
        /\ kml_files \in {Copies(ManyLayers, Unit(0)),
                           Copies(ManyLayers - 2, Unit(1)) \o Copies(2, Unit(0)),
                           Copies(ManyLayers - 1, Unit(0)) \o <<Unit(2)>>}
     \/ lcf = NoFile /\ kml_files = <<Base>>
     \/ lcf = FileOf(ScaleA) /\ kml_files \in {<<>>, <<Corrupt>>, Mixed}
  /\ Start

\* ----------------------------------------------------------------- actions
\* ColorScale(lcf_path) raises FileNotFoundError: print and return
LoadTableFails ==
  /\ pc = "load" /\ ~lcf.exists
  /\ pc' = "exit"
  /\ UNCHANGED <<inputs, color_map, entries, k, idx_counter, layers, geo, cv, li, final_rgba, written>>

LoadTable ==
  /\ pc = "load" /\ lcf.exists
  /\ LET cs == load_lcf(lcf.lines, policy # "AttributedBestServer")
     IN color_map' = cs.color_map /\ entries' = cs.entries
  /\ pc' = "parse"
  /\ UNCHANGED <<inputs, k, idx_counter, layers, geo, cv, li, final_rgba, written>>

\* one iteration of "for kml in kml_files"
InParse == pc = "parse" /\ k <= Len(kml_files)
ParseStep ==
  /\ InParse
  /\ LET ls == ParseOne(policy, [layers |-> layers, idx_counter |-> idx_counter], kml_files[k])
     IN layers' = ls.layers /\ idx_counter' = ls.idx_counter
  /\ k' = k + 1
  /\ UNCHANGED <<inputs, pc, color_map, entries, geo, cv, li, final_rgba, written>>

\* "if OUTPUT_NAME in kml: continue"
SkipOutput == InParse /\ kml_files[k].output /\ ParseStep
\* MapLayer(...) raises: "except Exception: pass"
LoadLayerFails == InParse /\ ~kml_files[k].output /\ ~Loadable(kml_files[k]) /\ ParseStep
LoadLayer == InParse /\ ~kml_files[k].output /\ Loadable(kml_files[k]) /\ ParseStep

\* "if not layers: return"
NoLayers ==
  /\ pc = "parse" /\ k > Len(kml_files) /\ layers = <<>>
  /\ pc' = "exit"
  /\ UNCHANGED <<inputs, color_map, entries, k, idx_counter, layers, geo, cv, li, final_rgba, written>>

\* Image.open(ref_layer.png_path) raises outside any try block
ReferenceOpenFails ==
  /\ pc = "parse" /\ k > Len(kml_files) /\ layers # <<>>
  /\ ~layers[1].readable
  /\ pc' = "crashed"
  /\ UNCHANGED <<inputs, color_map, entries, k, idx_counter, layers, geo, cv, li, final_rgba, written>>

\* the union box, the densities of the reference layer, the canvas buffers
BuildCanvas ==
  /\ pc = "parse" /\ k > Len(kml_files) /\ layers # <<>>
  /\ layers[1].readable
  /\ geo' = Geometry(layers)
  /\ cv' = NewCanvas(policy, geo')
  /\ pc' = "merge"
  /\ UNCHANGED <<inputs, color_map, entries, k, idx_counter, layers, li, final_rgba, written>>

\* one iteration of "for layer in layers"
InMerge == pc = "merge" /\ li <= Len(layers)
MergeStep ==
  /\ InMerge
  /\ cv' = MergeOne(policy, color_map, cv, layers[li], geo, wraps)
  /\ li' = li + 1
  /\ UNCHANGED <<inputs, pc, color_map, entries, k, idx_counter, layers, geo, final_rgba, written>>

\* Image.open(layer.png_path) raises inside the try block
MergeFails == InMerge /\ ~layers[li].readable /\ MergeStep
\* "if curr_h <= 0 or curr_w <= 0: continue"
MergeDegenerate == InMerge /\ layers[li].readable /\ Degenerate(Place(layers[li], geo)) /\ MergeStep
MergeLayer == InMerge /\ layers[li].readable /\ ~Degenerate(Place(layers[li], geo)) /\ MergeStep

\* paint or filter, save the image, the legend and the descriptor
Finish ==
  /\ pc = "merge" /\ li > Len(layers)
  /\ final_rgba' = FinalImage(policy, cv, layers, geo)
  /\ written' = {"png", "legend", "kml"}
  /\ pc' = "done"
  /\ UNCHANGED <<inputs, color_map, entries, k, idx_counter, layers, geo, cv, li>>

Next ==
  \/ LoadTableFails
  \/ LoadTable
  \/ SkipOutput
  \/ LoadLayerFails
  \/ LoadLayer
  \/ NoLayers
  \/ ReferenceOpenFails
  \/ BuildCanvas
  \/ MergeFails
  \/ MergeDegenerate
  \/ MergeLayer
  \/ Finish

Spec == Init /\ [][Next]_vars
SpecTable == InitTable /\ [][Next]_vars
SpecMany == InitMany /\ [][Next]_vars

\* ------------------------------------------------------- reading the state
Cells == {<<y, x>> : y \in 1..geo.master_h, x \in 1..geo.master_w}

\* the four co-indexed cells of a canvas at (y, x); a missing buffer reads as empty
Cell(c, y, x) ==
  [loss |-> c.master_loss[y][x],
   rgba |-> IF c.master_rgba = <<>> THEN Transparent ELSE c.master_rgba[y][x],
   owner |-> IF c.master_owner_id = <<>> THEN 0 ELSE c.master_owner_id[y][x],
   count |-> IF c.coverage_count = <<>> THEN 0 ELSE c.coverage_count[y][x]]

\* layer i reaches its masks: its raster opens and its region is not degenerate
Merged(i) == layers[i].readable /\ ~Degenerate(Place(layers[i], geo))
\* layer i is pasted over canvas cell (y, x)
Covers(i, y, x) == Merged(i) /\ InRegion(Place(layers[i], geo), y, x)
\* the layer pixel that falls on the cell, and its decoded value
ColorAt(i, y, x) ==
  RasterPixel(layers[i], y - Place(layers[i], geo).y_start, x - Place(layers[i], geo).x_start)
ValueAt(i, y, x) == Decode(color_map, ColorAt(i, y, x))

\* this step is the merge of layers[li]
MergeOf == pc = "merge" /\ pc' = "merge" /\ li' = li + 1

\* ----------------------------------------------------------------- claims
\* C1: in every policy a layer pixel whose colour is not a key of the table
\* decodes to UNDEFINED, and merging the layer leaves the best value, the
\* visual, the owner id and the overlap counter of its cell as they were.
C1_UndecodedNeverWins ==
  [][MergeOf =>
       \A c \in Cells :
         (Covers(li, c[1], c[2]) /\ ColorAt(li, c[1], c[2]) \notin DOMAIN color_map)
           => /\ ValueAt(li, c[1], c[2]) = UNDEFINED_PATH_LOSS
              /\ Cell(cv', c[1], c[2]) = Cell(cv, c[1], c[2])]_vars

\* an undecodable pixel has just been merged over a cell that held a winner
C1_Witness ==
  /\ pc = "merge" /\ li > 1
  /\ \E c \in Cells :
       /\ Covers(li - 1, c[1], c[2])
       /\ ColorAt(li - 1, c[1], c[2]) \notin DOMAIN color_map
       /\ cv.master_loss[c[1]][c[2]] # UNDEFINED_PATH_LOSS

\* the layers pasted over a cell, and the lowest value any of them decodes to
Covering(c) == {i \in 1..Len(layers) : Covers(i, c[1], c[2])}
MinValue(c) ==
  CHOOSE v \in {ValueAt(i, c[1], c[2]) : i \in Covering(c)} :
    \A i \in Covering(c) : v <= ValueAt(i, c[1], c[2])
\* the first layer, in processing order, that decodes to value v at the cell
FirstWith(c, v) ==
  CHOOSE i \in Covering(c) :
    /\ ValueAt(i, c[1], c[2]) = v
    /\ \A j \in Covering(c) : ValueAt(j, c[1], c[2]) = v => i <= j

\* C4: in AttributedBestServer a layer that decodes above VALID_THRESHOLD at
\* a cell changes neither the best value nor the owner id there, a layer that
\* decodes to exactly the threshold over a weaker cell is recorded as the
\* best value and owner, and a cell whose covering layers all decode above
\* the threshold (UNDEFINED included) ends with owner 0 and transparent.
C4_ThresholdGate ==
  /\ [][(MergeOf /\ policy = "AttributedBestServer") =>
          \A c \in Cells : Covers(li, c[1], c[2]) =>
            /\ ValueAt(li, c[1], c[2]) > VALID_THRESHOLD_DB =>
                 /\ cv'.master_loss[c[1]][c[2]] = cv.master_loss[c[1]][c[2]]
                 /\ cv'.master_owner_id[c[1]][c[2]] = cv.master_owner_id[c[1]][c[2]]
            /\ (ValueAt(li, c[1], c[2]) = VALID_THRESHOLD_DB
                  /\ cv.master_loss[c[1]][c[2]] > VALID_THRESHOLD_DB) =>
                 /\ cv'.master_loss[c[1]][c[2]] = VALID_THRESHOLD_DB
                 /\ cv'.master_owner_id[c[1]][c[2]] = layers[li].index]_vars
  /\ []((pc = "done" /\ policy = "AttributedBestServer") =>
          \A c \in Cells :
            (\A i \in Covering(c) : ValueAt(i, c[1], c[2]) > VALID_THRESHOLD_DB) =>
              /\ cv.master_owner_id[c[1]][c[2]] = 0
              /\ final_rgba[c[1]][c[2]] = Transparent)

\* a finished attributed run with a cell covered only by a layer above the
\* threshold, left without owner, and a cell won at exactly the threshold
C4_Witness ==
  /\ pc = "done" /\ policy = "AttributedBestServer"
  /\ \E c \in Cells :
       /\ Covering(c) # {}
       /\ \A i \in Covering(c) :
            /\ ValueAt(i, c[1], c[2]) > VALID_THRESHOLD_DB
            /\ ValueAt(i, c[1], c[2]) # UNDEFINED_PATH_LOSS
       /\ cv.master_owner_id[c[1]][c[2]] = 0
  /\ \E c \in Cells :
       /\ cv.master_loss[c[1]][c[2]] = VALID_THRESHOLD_DB
       /\ cv.master_owner_id[c[1]][c[2]] # 0
       /\ final_rgba[c[1]][c[2]][4] = 255

\* the lines of the table that yield an entry, in file order, as entries
ValidLine(l) ==
  /\ l.kind = "data" /\ Len(l.parts) >= 4
  /\ l.parts[1].t # "junk"
  /\ \A i \in 2..4 : l.parts[i].t = "int"
EntryOf(l) == <<l.parts[1].v, l.parts[2].v, l.parts[3].v, l.parts[4].v>>
ParsedEntries ==
  LET ok == SelectSeq(lcf.lines, ValidLine) IN [i \in 1..Len(ok) |-> EntryOf(ok[i])]
\* the entries of a sequence whose value is v, in order
RECURSIVE WithValue(_, _)
WithValue(es, v) ==
  IF es = <<>> THEN <<>>
  ELSE IF Head(es)[1] = v THEN <<Head(es)>> \o WithValue(Tail(es), v)
  ELSE WithValue(Tail(es), v)

\* C8: once the table is loaded (in the scripts that keep a legend of
\* values) the entries are in ascending order of value, and the entries of
\* each value are the valid lines of that value in their file order.
C8_LegendOrder ==
  (pc # "load" /\ pc # "exit" /\ policy # "AttributedBestServer") =>
    /\ Len(entries) = Len(ParsedEntries)
    /\ \A i \in 1..Len(entries) : \A j \in 1..Len(entries) :
         i < j => entries[i][1] <= entries[j][1]
    /\ \A i \in 1..Len(ParsedEntries) :
         WithValue(entries, ParsedEntries[i][1]) = WithValue(ParsedEntries, ParsedEntries[i][1])

\* lines 120, 80, 80 with two colours at 80 have been sorted to 80, 80, 120
C8_Witness ==
  /\ pc = "parse" /\ policy = "BestSignal"
  /\ ParsedEntries = <<EntryOf(DataLine(120 * DbUnit, Red)), EntryOf(DataLine(80 * DbUnit, Red)),
                       EntryOf(DataLine(80 * DbUnit, Green))>>
  /\ entries = <<EntryOf(DataLine(80 * DbUnit, Red)), EntryOf(DataLine(80 * DbUnit, Green)),
                 EntryOf(DataLine(120 * DbUnit, Red))>>

\* the descriptors of the directory without those that fail to load
Survives(d) == d.output \/ (d.raster # "none" /\ d.box = "ok")
Survivors == SelectSeq(kml_files, Survives)
Fresh == [layers |-> <<>>, idx_counter |-> 0]

\* C10: a descriptor that fails to load (no raster, no bounding box, a
\* non-numeric bound) is skipped: after the parsing loop and when the run
\* ends the layers, their identities and palette colours are those of the
\* directory without the failing descriptors, and a finished run has the
\* union box, the reference densities, the canvas and the composite of that
\* directory; with no layer loaded the run returns and writes nothing.
C10_LoadFailureSkipped ==
  LET p == ParseAll(policy, Fresh, Survivors)
      g == Geometry(p.layers)
      c == MergeAll(policy, color_map, NewCanvas(policy, g), p.layers, g, wraps)
  IN /\ (pc = "parse" /\ k > Len(kml_files)) \/ pc \in {"done", "crashed"} =>
          [layers |-> layers, idx_counter |-> idx_counter] = p
     /\ pc = "done" =>
          /\ geo = g /\ cv = c
          /\ final_rgba = FinalImage(policy, c, p.layers, g)
          /\ written = {"png", "legend", "kml"}
     /\ (pc \in {"done", "crashed", "exit"} /\ p.layers = <<>>) =>
          pc = "exit" /\ written = {} /\ final_rgba = <<>>

\* an attributed run finished although a descriptor before a loaded one failed
C10_Witness ==
  /\ pc = "done" /\ policy = "AttributedBestServer"
  /\ Len(kml_files) = 2 /\ ~Survives(kml_files[1]) /\ Len(layers) = 1
  /\ layers[1].index = 1
  /\ \E c \in Cells : final_rgba[c[1]][c[2]] = Opaque(SERVER_PALETTE[1])

\* C9: a raster of a loaded layer that cannot be opened at merge time, the
\* reference layer's included, never aborts the run: the layer is skipped
\* with the canvas as it was, and a run that loaded a layer ends with the
\* composite, the legend and the descriptor written.
C9_RasterFailureNeverAborts ==
  /\ [][(MergeOf /\ ~layers[li].readable) => cv' = cv]_vars
  /\ [](pc \in {"crashed", "exit"} => layers = <<>>)
  /\ [](pc = "done" => written = {"png", "legend", "kml"})

\* the descriptors that became layers, in order: layers[i] comes from LoadedDescriptors[i]
IsLoaded(d) == ~d.output /\ Loadable(d)
LoadedDescriptors == SelectSeq(kml_files, IsLoaded)
\* the union box in tenths of a degree, as written in the descriptors
MaxTenths(S) == CHOOSE v \in S : \A u \in S : u <= v
MinTenths(S) == CHOOSE v \in S : \A u \in S : v <= u
UnionNorth == MaxTenths({LoadedDescriptors[i].north : i \in 1..Len(LoadedDescriptors)})
UnionSouth == MinTenths({LoadedDescriptors[i].south : i \in 1..Len(LoadedDescriptors)})
UnionEast == MaxTenths({LoadedDescriptors[i].east : i \in 1..Len(LoadedDescriptors)})
UnionWest == MinTenths({LoadedDescriptors[i].west : i \in 1..Len(LoadedDescriptors)})

\* C7: the canvas height is (union.north - union.south) * reference.height /
\* (reference.north - reference.south) truncated to an integer, the width
\* likewise, so a union box k times the reference extent in each axis gives
\* a canvas k times the reference dimensions.
C7_CanvasSizing ==
  pc \in {"merge", "done"} =>
    LET ref == LoadedDescriptors[1]
    IN /\ geo.master_h = ((UnionNorth - UnionSouth) * ref.h) \div (ref.north - ref.south)
       /\ geo.master_w = ((UnionEast - UnionWest) * ref.w) \div (ref.east - ref.west)
       /\ \A f \in 1..4 :
            (/\ UnionNorth - UnionSouth = f * (ref.north - ref.south)
             /\ UnionEast - UnionWest = f * (ref.east - ref.west))
              => geo.master_h = f * ref.h /\ geo.master_w = f * ref.w

\* C6: BestSignal over exactly one layer gives a canvas of the layer's own
\* height and width in which a pixel whose colour is a key of the table is
\* the layer's pixel with alpha 255 and any other pixel is (0,0,0,0).
C6_RoundTrip ==
  (pc = "done" /\ policy = "BestSignal" /\ Len(layers) = 1) =>
    /\ geo.master_h = layers[1].h
    /\ geo.master_w = layers[1].w
    /\ \A i \in 1..layers[1].h : \A j \in 1..layers[1].w :
         final_rgba[i][j] = IF RasterPixel(layers[1], i, j) \in DOMAIN color_map
                            THEN Opaque(RasterPixel(layers[1], i, j))
                            ELSE Transparent

\* the outcome of a whole run over the layers ls: canvas size, best values, image
RunOver(pol, cm, ls, wr) ==
  LET g == Geometry(ls)
      c == MergeAll(pol, cm, NewCanvas(pol, g), ls, g, wr)
  IN [h |-> g.master_h, w |-> g.master_w, loss |-> c.master_loss,
      image |-> FinalImage(pol, c, ls, g)]
\* the orders in which the layers can be processed
Orders ==
  {f \in [1..Len(layers) -> 1..Len(layers)] : \A a, b \in 1..Len(layers) : f[a] = f[b] => a = b}
\* two descriptors state the same pixels per degree in both axes
SameDensity(a, b) ==
  /\ a.h * (b.north - b.south) = b.h * (a.north - a.south)
  /\ a.w * (b.east - b.west) = b.w * (a.east - a.west)
\* the layers over a cell decode to pairwise distinct values
DistinctAt(c) ==
  \A i, j \in Covering(c) : i # j => ValueAt(i, c[1], c[2]) # ValueAt(j, c[1], c[2])

\* C2: BestSignal over layers of one pixel density: a cell whose layers decode
\* to pairwise distinct values ends with the least of them and the opaque
\* colour of the layer that has it, and the final canvas (size, values,
\* visuals) is the same for every processing order of the layers, the
\* orders that change the reference layer included.
C2_BestSignalOrderIndependent ==
  (/\ pc = "done" /\ policy = "BestSignal"
   /\ \A i \in 1..Len(layers) : layers[i].readable
   /\ \A i, j \in 1..Len(LoadedDescriptors) :
        SameDensity(LoadedDescriptors[i], LoadedDescriptors[j]))
  => /\ \A c \in Cells :
          (Covering(c) # {} /\ DistinctAt(c) /\ MinValue(c) < UNDEFINED_PATH_LOSS) =>
            /\ cv.master_loss[c[1]][c[2]] = MinValue(c)
            /\ final_rgba[c[1]][c[2]] = Opaque(ColorAt(FirstWith(c, MinValue(c)), c[1], c[2]))
     /\ (\A c \in Cells : DistinctAt(c)) =>
          \A f \in Orders :
            RunOver(policy, color_map, [i \in 1..Len(layers) |-> layers[f[i]]], wraps)
              = [h |-> geo.master_h, w |-> geo.master_w, loss |-> cv.master_loss,
                 image |-> final_rgba]

\* the layers that decode to the least value of a cell
Ties(c) == {i \in Covering(c) : ValueAt(i, c[1], c[2]) = MinValue(c)}
\* what the final image shows of layer i at a cell: its own colour, or its palette colour
Shown(i, c) ==
  IF policy = "AttributedBestServer" THEN Opaque(layers[i].display_color)
  ELSE Opaque(ColorAt(i, c[1], c[2]))
\* the value can win a cell under the policy
CanWin(v) ==
  IF policy = "BestSignal" THEN v < UNDEFINED_PATH_LOSS ELSE v <= VALID_THRESHOLD_DB

\* C3: under BestSignal and AttributedBestServer a layer whose value at a
\* cell equals the recorded best leaves the value, the visual and the owner
\* id of the cell as they were; so of several layers that decode to the
\* same least value at a cell, the final composite shows the first processed.
C3_TieKeepsFirst ==
  /\ [][(MergeOf /\ policy # "OverlapConsensus") =>
          \A c \in Cells :
            (Covers(li, c[1], c[2]) /\ ValueAt(li, c[1], c[2]) = cv.master_loss[c[1]][c[2]])
              => Cell(cv', c[1], c[2]) = Cell(cv, c[1], c[2])]_vars
  /\ []((pc = "done" /\ policy # "OverlapConsensus") =>
          \A c \in Cells :
            (Covering(c) # {} /\ Cardinality(Ties(c)) >= 2 /\ CanWin(MinValue(c))) =>
              final_rgba[c[1]][c[2]] = Shown(FirstWith(c, MinValue(c)), c))

\* the layers over a cell whose value meets the validity threshold
Qualifying(c) == {i \in Covering(c) : ValueAt(i, c[1], c[2]) <= VALID_THRESHOLD_DB}

\* C5: after the filter of OverlapConsensus a cell is opaque exactly when at
\* least MIN_OVERLAP_COUNT of the layers over it decode to a value within the
\* threshold; an opaque cell has the colour of the layer with the least
\* value, and a cell with fewer qualifying layers is (0,0,0,0).
C5_OverlapConsensus ==
  (pc = "done" /\ policy = "OverlapConsensus") =>
    \A c \in Cells :
      /\ final_rgba[c[1]][c[2]][4] = 255 <=> Cardinality(Qualifying(c)) >= MIN_OVERLAP_COUNT
      /\ Cardinality(Qualifying(c)) >= MIN_OVERLAP_COUNT =>
           final_rgba[c[1]][c[2]] = Opaque(ColorAt(FirstWith(c, MinValue(c)), c[1], c[2]))
      /\ Cardinality(Qualifying(c)) < MIN_OVERLAP_COUNT =>
           final_rgba[c[1]][c[2]] = Transparent

\* C11: a table whose file exists but has no valid line (only blank, comment,
\* short or non-numeric lines) makes the load fail, and the failure is fatal:
\* the run returns before any descriptor is parsed and writes nothing.
C11_EmptyTableFatal ==
  (lcf.exists /\ SelectSeq(lcf.lines, ValidLine) = <<>> /\ pc # "load") =>
    /\ pc = "exit"
    /\ k = 1 /\ layers = <<>> /\ cv = NoCanvas
    /\ written = {}

\* the colour of a legend entry, and the value of the last valid line naming a colour
ColorOf(e) == <<e[2], e[3], e[4]>>
LastValue(c) ==
  LET n == CHOOSE i \in 1..Len(ParsedEntries) :
             /\ ColorOf(ParsedEntries[i]) = c
             /\ \A j \in 1..Len(ParsedEntries) : ColorOf(ParsedEntries[j]) = c => j <= i
  IN ParsedEntries[n][1]
\* the table after the first n lines of the file
AfterLines(n) == LoadLines(EmptyScale, SubSeq(lcf.lines, 1, n), policy # "AttributedBestServer")

\* C12: in the loaded table every colour has one value, the value of the last
\* valid line naming it: the lookup returns that value, the legend has at
\* most one entry for the colour and the entry carries that value; a line
\* whose fields fail numeric conversion leaves the table as it was.
C12_OneValuePerColor ==
  (pc # "load" /\ lcf.exists) =>
    /\ DOMAIN color_map = {ColorOf(ParsedEntries[i]) : i \in 1..Len(ParsedEntries)}
    /\ \A c \in DOMAIN color_map : color_map[c] = LastValue(c)
    /\ \A n \in 1..Len(lcf.lines) :
         ~ValidLine(lcf.lines[n]) => AfterLines(n) = AfterLines(n - 1)
    /\ policy # "AttributedBestServer" =>
         /\ \A i, j \in 1..Len(entries) : ColorOf(entries[i]) = ColorOf(entries[j]) => i = j
         /\ \A i \in 1..Len(entries) : entries[i][1] = color_map[ColorOf(entries[i])]

\* some layer won the cell: the least value over it meets the threshold; the
\* last layer to win it is the first that decodes to that value
Won(c) == Covering(c) # {} /\ MinValue(c) <= VALID_THRESHOLD_DB
LastWinner(c) == FirstWith(c, MinValue(c))

\* C13: in AttributedBestServer, whatever the number of layers, a layer that
\* wins a cell leaves its ordinal identity in the owner-id cell, and in the
\* final image a cell that some layer won is opaque in the palette colour
\* palette[(identity - 1) mod 10] of its last winner while the cells no layer
\* won are transparent.
C13_OwnerIdentity ==
  /\ [][(MergeOf /\ policy = "AttributedBestServer") =>
          \A c \in Cells :
            (/\ Covers(li, c[1], c[2])
             /\ BetterMask(ValueAt(li, c[1], c[2]), cv.master_loss[c[1]][c[2]]))
              => cv'.master_owner_id[c[1]][c[2]] = layers[li].index]_vars
  /\ []((pc = "done" /\ policy = "AttributedBestServer") =>
          \A c \in Cells :
            final_rgba[c[1]][c[2]] =
              IF Won(c)
              THEN Opaque(SERVER_PALETTE[((layers[LastWinner(c)].index - 1) % 10) + 1])
              ELSE Transparent)

\* C14: in OverlapConsensus, whatever the number of layers, after the fold
\* the counter of a cell is the number of merged layers over it that decode
\* to a value within the threshold, winners or not; so one more qualifying
\* layer never takes a cell that passes the overlap filter below it.
C14_CounterExact ==
  /\ []((policy = "OverlapConsensus" /\ (pc = "done" \/ (pc = "merge" /\ li > Len(layers)))) =>
          \A c \in Cells : cv.coverage_count[c[1]][c[2]] = Cardinality(Qualifying(c)))
  /\ [][(MergeOf /\ policy = "OverlapConsensus") =>
          \A c \in Cells :
            (/\ Covers(li, c[1], c[2])
             /\ ValueAt(li, c[1], c[2]) <= VALID_THRESHOLD_DB
             /\ cv.coverage_count[c[1]][c[2]] >= MIN_OVERLAP_COUNT)
              => cv'.coverage_count[c[1]][c[2]] >= MIN_OVERLAP_COUNT]_vars

\* the rectangle of the layer being merged, written out from the union box,
\* the densities and the canvas size
YStart == FlTrunc(FlMul(FlSub(geo.box.north, layers[li].north), geo.ppd_lat))
XStart == FlTrunc(FlMul(FlSub(layers[li].west, geo.box.west), geo.ppd_lon))
YEnd == Min(YStart + layers[li].h, geo.master_h)
XEnd == Min(XStart + layers[li].w, geo.master_w)

\* C15: merging a layer changes only canvas cells (y, x) of the rectangle
\* [y_start, y_end) x [x_start, x_end), each from the layer pixel
\* (y - y_start, x - x_start) of the layer's top-left crop alone; the offsets
\* are never negative; a rectangle of non-positive height or width leaves
\* the whole canvas as it was and raises nothing.
C15_PlacementFrame ==
  /\ [](pc \in {"merge", "done"} =>
          \A i \in 1..Len(layers) :
            Place(layers[i], geo).y_start >= 0 /\ Place(layers[i], geo).x_start >= 0)
  /\ [][MergeOf =>
          /\ (YEnd - YStart <= 0 \/ XEnd - XStart <= 0) => cv' = cv
          /\ \A c \in Cells :
               Cell(cv', c[1], c[2]) # Cell(cv, c[1], c[2]) =>
                 /\ YStart < c[1] /\ c[1] <= YEnd /\ XStart < c[2] /\ c[2] <= XEnd
                 /\ c[1] - YStart <= layers[li].h /\ c[2] - XStart <= layers[li].w
                 /\ LET px == RasterPixel(layers[li], c[1] - YStart, c[2] - XStart)
                    IN \/ cv'.master_loss[c[1]][c[2]] = cv.master_loss[c[1]][c[2]]
                       \/ /\ cv'.master_loss[c[1]][c[2]] = Decode(color_map, px)
                          /\ policy # "AttributedBestServer" =>
                               cv'.master_rgba[c[1]][c[2]] = Opaque(px)]_vars

\* a finished run in which a layer placed below the top of the canvas and
\* cropped at its bottom edge holds a cell, beside a cell it does not reach
C15_Witness ==
  /\ pc = "done" /\ policy = "BestSignal"
  /\ \E i \in 1..Len(layers) :
       LET pl == Place(layers[i], geo)
       IN /\ pl.y_start > 0 /\ pl.y_start + layers[i].h > geo.master_h
          /\ \E c \in Cells :
               /\ Covers(i, c[1], c[2])
               /\ cv.master_rgba[c[1]][c[2]] = Opaque(ColorAt(i, c[1], c[2]))
               /\ \A j \in Covering(c) : j = i
          /\ \E c \in Cells : ~Covers(i, c[1], c[2])

\* the colour of a visual cell
Rgb(px) == <<px[1], px[2], px[3]>>
\* the final buffer has the canvas size and every cell is (0,0,0,0) or opaque
FinalShape ==
  /\ Len(final_rgba) = geo.master_h
  /\ \A y \in 1..Len(final_rgba) :
       /\ Len(final_rgba[y]) = geo.master_w
       /\ \A x \in 1..Len(final_rgba[y]) :
            final_rgba[y][x] = Transparent \/ final_rgba[y][x][4] = 255

\* C16 as stated: in BestSignal and in OverlapConsensus before the filter,
\* after every merge a visual cell is (0,0,0,0) exactly when the best value is
\* UNDEFINED, and otherwise has alpha 255 and a colour that the table maps to
\* exactly the recorded best value; the final buffer of every policy has the
\* canvas size and only (0,0,0,0) or opaque cells.
C16_TableValueRecorded ==
  /\ (pc \in {"merge", "done"} /\ policy # "AttributedBestServer") =>
       \A c \in Cells :
         LET v == cv.master_loss[c[1]][c[2]]
             px == cv.master_rgba[c[1]][c[2]]
         IN /\ px = Transparent <=> v = UNDEFINED_PATH_LOSS
            /\ v # UNDEFINED_PATH_LOSS =>
                 /\ px[4] = 255
                 /\ Rgb(px) \in DOMAIN color_map
                 /\ color_map[Rgb(px)] = v
  /\ pc = "done" => FinalShape

\* C16 amended: as above, but the recorded best value is the table value of
\* the colour rounded to single precision, as the merge stores it.
C16_ValueVisualConsistent ==
  /\ (pc \in {"merge", "done"} /\ policy # "AttributedBestServer") =>
       \A c \in Cells :
         LET v == cv.master_loss[c[1]][c[2]]
             px == cv.master_rgba[c[1]][c[2]]
         IN /\ px = Transparent <=> v = UNDEFINED_PATH_LOSS
            /\ v # UNDEFINED_PATH_LOSS =>
                 /\ px[4] = 255
                 /\ Rgb(px) \in DOMAIN color_map
                 /\ F32(color_map[Rgb(px)]) = v
  /\ pc = "done" => FinalShape

\* a finished BestSignal run with a cell no layer decoded, a cell whose best
\* value is the rounded table value of its colour, and a cell of another layer
C16_Witness ==
  /\ pc = "done" /\ policy = "BestSignal" /\ Len(layers) >= 2
  /\ \E c \in Cells : cv.master_loss[c[1]][c[2]] = UNDEFINED_PATH_LOSS
  /\ \E c \in Cells :
       /\ cv.master_rgba[c[1]][c[2]] = <<Blue[1], Blue[2], Blue[3], 255>>
       /\ cv.master_loss[c[1]][c[2]] = 150 * DbUnit
       /\ color_map[Blue] = 150 * DbUnit + 1
  /\ \E c \in Cells : cv.master_loss[c[1]][c[2]] = 95 * DbUnit /\ Cardinality(Covering(c)) >= 2
====
